---- MODULE Spec2Model ----
(***************************************************************************)
(* Model of har2nxdigraph.py: HARParser._make_graph_as_list (the burst     *)
(* segmentation scan) and HARParser.create_digraph (the graph builder).    *)
(*                                                                         *)
(* Representation choices                                                  *)
(*  - a decoded HAR entry is a record; resp tells which keys the entry's   *)
(*    "response" object has ("none": the entry has no "response" key);     *)
(*  - startedDateTime is the pair (sec, ms) of the local wall-clock second *)
(*    and the fractional part; timeOk = FALSE is a timestamp strptime      *)
(*    rejects;                                                             *)
(*  - entry["time"] is a JSON number, held in thousandths of a ms          *)
(*    (timeMicro), so that int() truncates;                                *)
(*  - entry_size is the float (headersSize + bodySize) / 1024.0; it is     *)
(*    held by its exact numerator in bytes (division by a power of two is  *)
(*    exact), and the division happens where the value is rounded;         *)
(*  - graph nodes are triples <<kind, i, j>>: "start" is <<"start",0,0>>,  *)
(*    "pause0"/"pause1" are <<"pause",0,0>>/<<"pause",1,0>>,               *)
(*    "pause_sync{i}" is <<"pause_sync",i,0>>, "transfer{i}_{j}" is        *)
(*    <<"transfer",i,j>>.                                                  *)
(***************************************************************************)
EXTENDS Integers, Sequences, FiniteSets, TLC

\* ---------------------------------------------------------------- bounds
MaxEntries == 3
MaxSec == 1

\* ------------------------------------------------------ program constants
MsPerSec == 1000
BytesPerKiB == 1024

\* ------------------------------------------------------------ input sets
MsValues == {0, 500}
TimeMicroValues == {0, 1000500}
MkEntry(resp, timeOk, sec, ms, timeMicro, h, b) ==
    [resp |-> resp, timeOk |-> timeOk, sec |-> sec, ms |-> ms,
     timeMicro |-> timeMicro, headersSize |-> h, bodySize |-> b]

\* entries with both size fields, over every start time and duration
TimingEntries ==
    { MkEntry("full", TRUE, s, m, d, 512, 2048) :
        s \in 0..MaxSec, m \in MsValues, d \in TimeMicroValues }

\* entries with both size fields whose sizes vary (ties, non-ties, the HAR
\* "unknown" value -1)
SizeEntries ==
    { MkEntry("full", TRUE, 0, 500, 0, hb[1], hb[2]) :
        hb \in { <<512, 3072>>, <<-1, 1200>>, <<300, 400>>, <<-1, 513>> } }

\* entries the scan skips or fails on
OddEntries ==
    { MkEntry("noHeaders", TRUE, 0, 0, 1000500, 0, 2048),
      MkEntry("noBody", FALSE, 0, 500, 1000500, 512, 0),
      MkEntry("none", TRUE, 0, 0, 0, 0, 0),
      MkEntry("full", FALSE, 0, 0, 0, 512, 2048) }

Entries == TimingEntries \cup SizeEntries \cup OddEntries

EntryLists == UNION { [1..n -> Entries] : n \in 0..MaxEntries }

\* ------------------------------------------------------------- state
VARIABLES
    wellFormed,   \* self._json_data has ["log"]["entries"]
    entries,      \* self._json_data["log"]["entries"]
    pc,           \* position in create_digraph / _make_graph_as_list
    idx,          \* position of the for loop of _make_graph_as_list (1-based)
    graph_list,
    temp_list,
    error,        \* "none", or the exception that ended create_digraph
    nodes,        \* graph.nodes
    edges,        \* graph.edges
    size,         \* the size attribute of the transfer nodes, in KiB
    prev_node,
    next_node,
    i,            \* the enumerate index of the loop over graph_list (0-based)
    written       \* nx.write_graphml was called

vars == <<wellFormed, entries, pc, idx, graph_list, temp_list, error,
          nodes, edges, size, prev_node, next_node, i, written>>

scanVars == <<idx, graph_list, temp_list>>
graphVars == <<nodes, edges, size, prev_node, next_node, i>>

\* ---------------------------------------------- _make_graph_as_list parts
\* variant of SkipEntry: only headersSize is looked for
SkipEntry_HeadersOnly(e) == e.resp = "noHeaders"

\* line 51: the entry is skipped
SkipEntry(e) == e.resp = "noHeaders" \/ e.resp = "noBody"

\* an exception is raised while the entry is scanned: KeyError on
\* entry["response"] (line 51), ValueError in strptime (line 36), KeyError
\* on a size field (line 60)
RaisesInScan(e) ==
    \/ e.resp = "none"
    \/ ~SkipEntry(e) /\ (~e.timeOk \/ e.resp # "full")

\* _time_fmt_to_ms, line 39
time_fmt_to_ms(e) == e.sec * MsPerSec + e.ms

\* int(entry["time"]), line 59
entry_time_len(e) == e.timeMicro \div 1000

\* line 60, as the numerator over 1024
entry_size(e) == e.headersSize + e.bodySize

\* the tuple appended to temp_list, lines 67 and 70
EntryTuple(e) == <<time_fmt_to_ms(e), entry_time_len(e), entry_size(e)>>

\* variant of StartsNewBurst: strict comparison
StartsNewBurst_Strict(entry_time, tl) ==
    \A k \in 1..Len(tl) : entry_time > tl[k][1] + tl[k][2]

\* variant of StartsNewBurst: only the latest member is compared
StartsNewBurst_LastOnly(entry_time, tl) ==
    tl # <<>> => entry_time >= tl[Len(tl)][1] + tl[Len(tl)][2]

\* line 64
StartsNewBurst(entry_time, tl) ==
    \A k \in 1..Len(tl) : entry_time >= tl[k][1] + tl[k][2]

\* variant of ScanResult: the final burst is not pushed
ScanResult_NoFinal(gl, tl) == gl

\* line 72
ScanResult(gl, tl) == Append(gl, tl)

\* variant of ScanErrorResult: the bursts gathered so far are returned
ScanErrorResult_Partial(gl, tl) == Append(gl, tl)

\* line 85
ScanErrorResult(gl, tl) == <<>>

\* ------------------------------------------------------ create_digraph parts
Start == <<"start", 0, 0>>
Pause0 == <<"pause", 0, 0>>
Pause1 == <<"pause", 1, 0>>
Sync(k) == <<"pause_sync", k, 0>>
Transfer(k, j) == <<"transfer", k, j>>

\* variant of PyRound: ties away from zero on non-negative values
PyRound_HalfUp(num, den) == (2 * num + den) \div (2 * den)

\* round() of Python 3 on num / den: nearest integer, ties to even
PyRound(num, den) ==
    LET q == num \div den
        r == num % den
    IN  IF 2 * r < den THEN q
        ELSE IF 2 * r > den THEN q + 1
        ELSE IF q % 2 = 0 THEN q ELSE q + 1

\* line 113: int(round(float(indiv_entry[2])))
xfer_size(t) == PyRound(t[3], BytesPerKiB)

\* variant of TransferEdges: the closing edge is reversed
TransferEdges_Reversed(prev, node, next) == { <<prev, node>>, <<next, node>> }

\* lines 116-117
TransferEdges(prev, node, next) == { <<prev, node>>, <<node, next>> }

\* variant of NextSyncIndex: the index is not advanced
NextSyncIndex_Same(k) == k

\* line 120
NextSyncIndex(k) == k + 1

\* variant of ExitEdges: the edge back to start is missing
ExitEdges_NoLoop(prev) == { <<prev, Pause1>> }

\* lines 124-125
ExitEdges(prev) == { <<prev, Pause1>>, <<Pause1, Start>> }

\* add_edge adds its endpoints to the graph
EndPoints(es) == { e[1] : e \in es } \cup { e[2] : e \in es }

\* ------------------------------------------------------------- Init
Init ==
    /\ wellFormed \in BOOLEAN
    /\ entries \in EntryLists
    /\ (~wellFormed => entries = <<>>)
    /\ pc = "scan"
    /\ idx = 1
    /\ graph_list = <<>>
    /\ temp_list = <<>>
    /\ error = "none"
    /\ nodes = {}
    /\ edges = {}
    /\ size = <<>>
    /\ prev_node = Start
    /\ next_node = Start
    /\ i = 0
    /\ written = FALSE

\* ------------------------------------------------- _make_graph_as_list
\* _get_entries printed the error and returned None; the for statement
\* raises TypeError, caught at line 83
ScanMalformed ==
    /\ pc = "scan"
    /\ ~wellFormed
    /\ graph_list' = ScanErrorResult(graph_list, temp_list)
    /\ pc' = "check"
    /\ UNCHANGED <<wellFormed, entries, idx, temp_list, error, graphVars, written>>

\* an exception in the loop body, caught at line 83
ScanError ==
    /\ pc = "scan"
    /\ wellFormed
    /\ idx <= Len(entries)
    /\ RaisesInScan(entries[idx])
    /\ graph_list' = ScanErrorResult(graph_list, temp_list)
    /\ pc' = "check"
    /\ UNCHANGED <<wellFormed, entries, idx, temp_list, error, graphVars, written>>

\* lines 51-52
ScanSkip ==
    /\ pc = "scan"
    /\ wellFormed
    /\ idx <= Len(entries)
    /\ ~RaisesInScan(entries[idx])
    /\ SkipEntry(entries[idx])
    /\ idx' = idx + 1
    /\ UNCHANGED <<wellFormed, entries, pc, graph_list, temp_list, error,
                   graphVars, written>>

\* lines 58-67
ScanNewBurst ==
    /\ pc = "scan"
    /\ wellFormed
    /\ idx <= Len(entries)
    /\ ~RaisesInScan(entries[idx])
    /\ ~SkipEntry(entries[idx])
    /\ StartsNewBurst(time_fmt_to_ms(entries[idx]), temp_list)
    /\ graph_list' = Append(graph_list, temp_list)
    /\ temp_list' = << EntryTuple(entries[idx]) >>
    /\ idx' = idx + 1
    /\ UNCHANGED <<wellFormed, entries, pc, error, graphVars, written>>

\* lines 58-64, 69-70
ScanAppend ==
    /\ pc = "scan"
    /\ wellFormed
    /\ idx <= Len(entries)
    /\ ~RaisesInScan(entries[idx])
    /\ ~SkipEntry(entries[idx])
    /\ ~StartsNewBurst(time_fmt_to_ms(entries[idx]), temp_list)
    /\ temp_list' = Append(temp_list, EntryTuple(entries[idx]))
    /\ idx' = idx + 1
    /\ UNCHANGED <<wellFormed, entries, pc, graph_list, error, graphVars, written>>

\* lines 72-81
ScanReturn ==
    /\ pc = "scan"
    /\ wellFormed
    /\ idx > Len(entries)
    /\ graph_list' = ScanResult(graph_list, temp_list)
    /\ pc' = "check"
    /\ UNCHANGED <<wellFormed, entries, idx, temp_list, error, graphVars, written>>

\* ------------------------------------------------------ create_digraph
\* lines 91-92
RaiseEmpty ==
    /\ pc = "check"
    /\ Len(graph_list) = 0
    /\ error' = "Exception"
    /\ pc' = "failed"
    /\ UNCHANGED <<wellFormed, entries, scanVars, graphVars, written>>

\* line 91, the list is not empty
CheckPassed ==
    /\ pc = "check"
    /\ Len(graph_list) # 0
    /\ pc' = "trim"
    /\ UNCHANGED <<wellFormed, entries, scanVars, error, graphVars, written>>

\* line 95 evaluated on an empty list: graph_list[0] raises IndexError
TrimIndexError ==
    /\ pc = "trim"
    /\ Len(graph_list) = 0
    /\ error' = "IndexError"
    /\ pc' = "failed"
    /\ UNCHANGED <<wellFormed, entries, scanVars, graphVars, written>>

\* lines 95-96, one iteration of the while loop
TrimStep ==
    /\ pc = "trim"
    /\ Len(graph_list) # 0
    /\ Len(graph_list[1]) = 0
    /\ graph_list' = Tail(graph_list)
    /\ UNCHANGED <<wellFormed, entries, pc, idx, temp_list, error, graphVars, written>>

\* lines 95 (loop exit) to 107
BuildInit ==
    /\ pc = "trim"
    /\ Len(graph_list) # 0
    /\ Len(graph_list[1]) # 0
    /\ nodes' = { Start, Pause0, Sync(0) }
    /\ edges' = { <<Start, Pause0>> }
    /\ prev_node' = Pause0
    /\ next_node' = Sync(0)
    /\ i' = 0
    /\ pc' = "burst"
    /\ UNCHANGED <<wellFormed, entries, scanVars, error, size, written>>

\* lines 110-120, one iteration of the outer loop
BuildBurst ==
    /\ pc = "burst"
    /\ i < Len(graph_list)
    /\ LET graph_entry == graph_list[i + 1]
           J == 0..(Len(graph_entry) - 1)
           new == UNION { TransferEdges(prev_node, Transfer(i, j), next_node) : j \in J }
       IN  /\ edges' = edges \cup new
           /\ nodes' = nodes \cup { Transfer(i, j) : j \in J } \cup EndPoints(new)
           /\ size' = [ n \in (DOMAIN size) \cup { Transfer(i, j) : j \in J } |->
                          IF n[1] = "transfer" /\ n[2] = i
                          THEN xfer_size(graph_entry[n[3] + 1])
                          ELSE size[n] ]
    /\ prev_node' = next_node
    /\ next_node' = Sync(NextSyncIndex(i))
    /\ i' = i + 1
    /\ UNCHANGED <<wellFormed, entries, pc, scanVars, error, written>>

\* lines 123-125
BuildExit ==
    /\ pc = "burst"
    /\ i >= Len(graph_list)
    /\ edges' = edges \cup ExitEdges(prev_node)
    /\ nodes' = nodes \cup { Pause1 } \cup EndPoints(ExitEdges(prev_node))
    /\ pc' = "write"
    /\ UNCHANGED <<wellFormed, entries, scanVars, error, size, prev_node,
                   next_node, i, written>>

\* line 127
WriteGraph ==
    /\ pc = "write"
    /\ written' = TRUE
    /\ pc' = "done"
    /\ UNCHANGED <<wellFormed, entries, scanVars, error, graphVars>>

Next ==
    \/ ScanMalformed
    \/ ScanError
    \/ ScanSkip
    \/ ScanNewBurst
    \/ ScanAppend
    \/ ScanReturn
    \/ RaiseEmpty
    \/ CheckPassed
    \/ TrimIndexError
    \/ TrimStep
    \/ BuildInit
    \/ BuildBurst
    \/ BuildExit
    \/ WriteGraph

Spec == Init /\ [][Next]_vars

\* ------------------------------------------------------------ helpers
RECURSIVE Flatten(_)
Flatten(ll) == IF ll = <<>> THEN <<>> ELSE Head(ll) \o Flatten(Tail(ll))

\* the entry lacks headersSize or bodySize in its response
MissingSize(e) == e.resp \in {"noHeaders", "noBody"}

HasBothSizes(e) == e.resp = "full"

\* the input without the records that lack a size field
WithoutMissing(es) == SelectSeq(es, LAMBDA e : ~MissingSize(e))

\* the tuples of the records having both size fields, in input order
RECURSIVE ValidTuples(_)
ValidTuples(es) ==
    IF es = <<>> THEN <<>>
    ELSE IF HasBothSizes(Head(es))
         THEN <<EntryTuple(Head(es))>> \o ValidTuples(Tail(es))
         ELSE ValidTuples(Tail(es))

Completion(t) == t[1] + t[2]

\* the scan is about to process a record that has both size fields
AtValidRecord ==
    /\ pc = "scan"
    /\ wellFormed
    /\ idx <= Len(entries)
    /\ HasBothSizes(entries[idx])
    /\ entries[idx].timeOk

\* the record was appended to the current burst
Joined ==
    /\ temp_list' = Append(temp_list, EntryTuple(entries[idx]))
    /\ graph_list' = graph_list

\* the current burst was closed and the record started a new one
Closed ==
    /\ graph_list' = Append(graph_list, temp_list)
    /\ temp_list' = << EntryTuple(entries[idx]) >>

NoScanFailure ==
    /\ wellFormed
    /\ \A k \in 1..Len(entries) : ~RaisesInScan(entries[k])

GraphBuilt == pc \in {"write", "done"}

SyncNodes == { n \in nodes : n[1] = "pause_sync" }
TransferNodes == { n \in nodes : n[1] = "transfer" }
Preds(n) == { e[1] : e \in { d \in edges : d[2] = n } }
Succs(n) == { e[2] : e \in { d \in edges : d[1] = n } }

\* ------------------------------------------------------------- claims

\* C1 (as stated): a valid record is appended to the current burst exactly
\* when the burst is non-empty and the record starts strictly before the
\* completion time of EVERY member; otherwise the burst is closed and the
\* record starts a new one.
C1_AsStated ==
    [][ AtValidRecord =>
          LET r == time_fmt_to_ms(entries[idx])
              before == /\ temp_list # <<>>
                        /\ \A k \in 1..Len(temp_list) : r < Completion(temp_list[k])
          IN  /\ Joined <=> before
              /\ ~before => Closed ]_vars

\* C1 (amended): a valid record is appended to the current burst exactly when
\* it starts strictly before the completion time of AT LEAST ONE member of
\* the (then necessarily non-empty) current burst; otherwise the burst is
\* closed and the record starts a new one.
C1_JoinsIffSomeOutstanding ==
    [][ AtValidRecord =>
          LET r == time_fmt_to_ms(entries[idx])
              before == \E k \in 1..Len(temp_list) : r < Completion(temp_list[k])
          IN  /\ Joined <=> before
              /\ ~before => Closed ]_vars

\* a record joined a burst although an earlier member had already completed
C1_Witness ==
    /\ pc = "scan"
    /\ \E k \in 2..Len(temp_list) :
         /\ \E m \in 1..(k - 1) : temp_list[k][1] < Completion(temp_list[m])
         /\ \E m \in 1..(k - 1) : temp_list[k][1] >= Completion(temp_list[m])

\* C2: a valid record starts a new burst iff the current burst is empty or
\* the record starts at or after the completion time of all members; after
\* a burst holding the single record (t0, d) the next record joins iff its
\* start time is below t0 + d.
C2_NewBurstIffAllCompleted ==
    [][ AtValidRecord =>
          LET r == time_fmt_to_ms(entries[idx])
              allDone == \A k \in 1..Len(temp_list) : r >= Completion(temp_list[k])
          IN  /\ Closed <=> (temp_list = <<>> \/ allDone)
              /\ ~Closed => Joined
              /\ Len(temp_list) = 1 =>
                   (Joined <=> r < temp_list[1][1] + temp_list[1][2]) ]_vars

\* a record that starts exactly at the completion time of the single member
\* of the previous burst started a new burst
C2_Witness ==
    /\ pc = "scan"
    /\ Len(graph_list) >= 2
    /\ Len(temp_list) = 1
    /\ LET last == graph_list[Len(graph_list)]
       IN  /\ Len(last) = 1
           /\ last[1][2] > 0
           /\ temp_list[1][1] = Completion(last[1])

ClosesLastBurst(s) ==
    /\ s \in SyncNodes
    /\ \A j \in 0..(Len(graph_list[Len(graph_list)]) - 1) :
         <<Transfer(Len(graph_list) - 1, j), s>> \in edges

NoUsableRecord ==
    /\ wellFormed
    /\ \A k \in 1..Len(entries) : MissingSize(entries[k])

\* C6: with zero usable records create_digraph fails with its explicit
\* error and never produces or writes a graph.
C6_ExplicitFailure ==
    NoUsableRecord =>
        /\ ~written
        /\ nodes = {}
        /\ pc \notin {"burst", "write", "done"}
        /\ pc = "failed" => error = "Exception"

\* ------------------------------------------------------------ C7
\* _make_graph_as_list as a function of the entries, lines 45-85
RECURSIVE ScanFrom(_, _, _, _)
ScanFrom(es, k, gl, tl) ==
    IF k > Len(es) THEN ScanResult(gl, tl)
    ELSE IF RaisesInScan(es[k]) THEN ScanErrorResult(gl, tl)
    ELSE IF SkipEntry(es[k]) THEN ScanFrom(es, k + 1, gl, tl)
    ELSE IF StartsNewBurst(time_fmt_to_ms(es[k]), tl)
         THEN ScanFrom(es, k + 1, Append(gl, tl), << EntryTuple(es[k]) >>)
         ELSE ScanFrom(es, k + 1, gl, Append(tl, EntryTuple(es[k])))

make_graph_as_list(es) == ScanFrom(es, 1, <<>>, <<>>)

\* C7: segmenting a list yields the burst sequence of the list with the
\* records lacking a size field removed, and no such record is in a burst.
C7_MissingSizeIgnored ==
    (pc = "check" /\ wellFormed) =>
        /\ graph_list = make_graph_as_list(WithoutMissing(entries))
        /\ Len(Flatten(graph_list)) <= Len(WithoutMissing(entries))

\* the scan returned bursts for a list with a record lacking a size field
\* between two usable records
C7_Witness ==
    /\ pc = "check"
    /\ wellFormed
    /\ Len(entries) = 3
    /\ MissingSize(entries[2])
    /\ Len(Flatten(graph_list)) = 2

\* C8: a malformed trace, or an error while scanning a record, ends
\* create_digraph in its failure; nothing is built or written; the graph is
\* written only once it is complete.
C8_FailuresAbort ==
    /\ ~NoScanFailure =>
         /\ ~written
         /\ nodes = {}
         /\ pc \in {"scan", "check", "failed"}
         /\ pc = "failed" => error = "Exception"
    /\ written =>
         /\ pc = "done"
         /\ i = Len(graph_list)
         /\ <<Pause1, Start>> \in edges
         /\ Cardinality(TransferNodes) = Len(Flatten(graph_list))

\* create_digraph failed on a record that raises after a usable record
C8_Witness ==
    /\ pc = "failed"
    /\ wellFormed
    /\ Len(entries) >= 2
    /\ HasBothSizes(entries[1]) /\ entries[1].timeOk
    /\ RaisesInScan(entries[2])

\* the record of a transfer node
RecordOf(n) == graph_list[n[2] + 1][n[3] + 1]

\* s is a whole number of KiB nearest to b bytes
Nearest(s, b) ==
    /\ 2 * (s * BytesPerKiB - b) <= BytesPerKiB
    /\ 2 * (b - s * BytesPerKiB) <= BytesPerKiB

\* C9 (as stated): the size attribute is the size in KiB rounded to the
\* nearest whole KiB, and 2560 bytes (2.5 KiB) gives "3 KiB".
C9_AsStated ==
    \A n \in DOMAIN size :
        /\ Nearest(size[n], RecordOf(n)[3])
        /\ RecordOf(n)[3] = 2560 => size[n] = 3

\* C9 (amended): the size attribute is the size in KiB rounded to the
\* nearest whole KiB, a tie going to the even neighbour; 2560 bytes
\* (2.5 KiB) gives "2 KiB".
C9_RoundHalfEven ==
    /\ DOMAIN size = TransferNodes
    /\ \A n \in DOMAIN size :
        /\ Nearest(size[n], RecordOf(n)[3])
        /\ RecordOf(n)[3] % BytesPerKiB = 512 => size[n] % 2 = 0
        /\ RecordOf(n)[3] = 2560 => size[n] = 2

C9_Witness ==
    /\ pc = "done"
    /\ \E n \in DOMAIN size : RecordOf(n)[3] = 2560
    /\ \E n \in DOMAIN size : RecordOf(n)[3] = 3584
    /\ \E n \in DOMAIN size : RecordOf(n)[3] = 1199

AllNonEmpty(ll) == \A k \in 1..Len(ll) : ll[k] # <<>>

\* C10: when the scan completes without error its raw output is one empty
\* burst followed by non-empty bursts whose concatenation is the sequence of
\* valid records; trimming removes exactly that one leading burst, and with
\* no valid record the raw output is the single empty burst.
C10_RawShape ==
    NoScanFailure =>
        /\ pc \in {"check", "trim", "failed"} =>
             \/ /\ Len(graph_list) >= 1
                /\ graph_list[1] = <<>>
                /\ AllNonEmpty(Tail(graph_list))
                /\ Flatten(graph_list) = ValidTuples(entries)
                /\ ValidTuples(entries) = <<>> => graph_list = << <<>> >>
             \/ /\ pc = "trim"
                /\ AllNonEmpty(graph_list)
                /\ Flatten(graph_list) = ValidTuples(entries)
             \/ /\ pc = "failed"
                /\ graph_list = <<>>
                /\ ValidTuples(entries) = <<>>
        /\ pc = "check" => graph_list[1] = <<>>
        /\ pc \in {"burst", "write", "done"} =>
             /\ Len(graph_list) >= 1
             /\ AllNonEmpty(graph_list)
             /\ Flatten(graph_list) = ValidTuples(entries)

C10_Witness ==
    /\ pc = "trim"
    /\ Len(graph_list) = 3
    /\ graph_list[1] = <<>>
    /\ Len(graph_list[2]) = 1
    /\ \E k \in 1..Len(entries) : MissingSize(entries[k])

====
